---- MODULE Spec2Model ----
(***************************************************************************)
(* Bulk upload of exam questions: the upload page's handleUpload and the   *)
(* upload orchestrator uploadBulkData (uploadQuestions, createTest,        *)
(* updateTestSections, uploadTestQuestions) talking to the record store.   *)
(* Every store call is an await point: the orchestrator issues one call,   *)
(* the store answers it, the orchestrator resumes.                         *)
(***************************************************************************)
EXTENDS Integers, Sequences, FiniteSets, TLC

\* ---------------------------------------------------------------- bounds
\* modules per upload, questions per module, questions per upload of any
\* caller and of the page (whose files hold at least one question each),
\* characters of a title
MaxModules == 4
MaxPerModule == 2
MaxQuestions == 3
MaxPageQuestions == 4
MaxTitleLen == 1
\* presses of Upload after a failed attempt, and the questions of an upload
\* that is retried
MaxRetries == 1
MaxRetryQuestions == 3
\* data rows of a sheet, questions handed to the conversion
MaxRows == 2
MaxParsed == 1
\* files chosen in one selection, selections made
MaxChosen == 2
MaxSelections == 3
\* drags and removals
MaxEdits == 2

\* ------------------------------------------------------- program constants
\* modules.length === 4 makes a full test
FullTestModules == 4
\* updateTestSections: the math sections
MathModuleLow == 3
MathModuleHigh == 4
\* the module numbers a caller passes (TESTSECTION1..TESTSECTION4 exist)
MaxModuleNumber == 4
\* files.length >= 4 disables the file input
MaxFiles == 4

VARIABLES
  \* the page (page.tsx useState): the file list, the form, the banners
  files, testTitle, testDescription, error, success, isUploading, uploadProgress,
  \* who called uploadBulkData ("none": not called yet) and its arguments
  caller, modules, title, description,
  \* uploadBulkData: the await it stands at, and its locals
  pc, allQuestions, i, questionIds, moduleQuestionIds, test, testId,
  mathModules, testQuestions, thrown, result,
  \* the call in flight and its reply, the store's tables, and the run's
  \* store calls and progress events in order
  pending, reply, db, calls, events,
  \* what each earlier, failed attempt left behind when the page's Upload
  \* button was pressed again
  earlier,
  \* parseExcelFile (excel-parser.ts): jsonData of the first sheet, the step
  \* of reader.onload, the rows visited, the questionId resolved for each
  \* visited row, the loop's questions and skippedRows, the rejection's
  \* message; and what convertParsedQuestions made of the questions
  sheet, ppc, rowIndex, resolvedIds, questions, skippedRows, rejection, converted,
  \* the page's file input: isLoading (useState), the handleFileUpload call in
  \* flight with the files value its closure holds, and Date.now() counted
  \* in selections
  isLoading, selection, clock,
  \* the drags and removals made so far
  edits

pageVars == <<files, testTitle, testDescription, error, success, isUploading, uploadProgress>>
argVars == <<caller, modules, title, description>>
localVars == <<allQuestions, i, questionIds, moduleQuestionIds, test, testId,
               mathModules, testQuestions, thrown, result>>
parserVars == <<sheet, ppc, rowIndex, resolvedIds, questions, skippedRows, rejection, converted>>
loaderVars == <<isLoading, selection, clock, edits>>
intakeVars == <<parserVars, loaderVars>>
vars == <<pageVars, argVars, pc, localVars, pending, reply, db, calls, events, earlier,
          intakeVars>>

\* ---------------------------------------------------------------- helpers
RECURSIVE SumSeq(_)
SumSeq(s) == IF s = <<>> THEN 0 ELSE Head(s) + SumSeq(Tail(s))

\* Array.prototype.slice(from, to) with 0-based, end-exclusive indices,
\* clamped to the array as JavaScript clamps them.
Slice(s, from, to) ==
  LET hi == IF to > Len(s) THEN Len(s) ELSE to
  IN  IF from >= hi THEN <<>> ELSE SubSeq(s, from + 1, hi)

\* String.prototype.trim on a title held as a sequence of characters.
IsSpace(c) == c = " "

RECURSIVE TrimStart(_)
TrimStart(s) ==
  IF s # <<>> /\ IsSpace(Head(s)) THEN TrimStart(Tail(s)) ELSE s

RECURSIVE TrimEnd(_)
TrimEnd(s) ==
  IF s # <<>> /\ IsSpace(s[Len(s)]) THEN TrimEnd(SubSeq(s, 1, Len(s) - 1)) ELSE s

\* The title tested as typed: if (!testTitle).
TrimNone(s) == s

Trim(s) == TrimEnd(TrimStart(s))

\* ----------------------------------------------------------------- inputs
TitleChars == {" ", "T"}
Titles == UNION {[1..n -> TitleChars] : n \in 0..MaxTitleLen}
Descriptions == {"", "Practice Exam 1"}
\* The titles a caller other than the page passes: none, or one as typed.
PassedTitles == {<<>>, <<"T">>}

\* The questions of the module at list position m: the k-th one is <<m, k>>.
QuestionsOf(m, count) == [k \in 1..count |-> <<m, k>>]

\* File lists of the upload page: the file at index m carries moduleNumber m
\* and at least one question (parseExcelFile rejects a file with none).
PageFileLists ==
  UNION {
    {[m \in 1..n |-> [moduleNumber |-> m, questions |-> QuestionsOf(m, c[m])]] :
       c \in {cc \in [1..n -> 1..MaxPerModule] : SumSeq(cc) <= MaxPageQuestions}}
    : n \in 0..MaxModules}

\* Module lists of any caller of uploadBulkData: one module per section at
\* most, in ascending or descending section order, modules without questions
\* included.
Monotone(f) ==
  \/ \A a, b \in DOMAIN f : a < b => f[a] < f[b]
  \/ \A a, b \in DOMAIN f : a < b => f[a] > f[b]

ModuleLists ==
  UNION {
    {[m \in 1..n |-> [moduleNumber |-> nums[m], questions |-> QuestionsOf(m, c[m])]] :
       nums \in {f \in [1..n -> 1..MaxModuleNumber] : Monotone(f)},
       c \in {cc \in [1..n -> 0..MaxPerModule] : SumSeq(cc) <= MaxQuestions}}
    : n \in 0..MaxModules}

\* ------------------------------------------------------------ pure helpers
\* allQuestions.push(...moduleData.questions) over the modules in order.
RECURSIVE Flatten(_)
Flatten(ms) ==
  IF ms = <<>> THEN <<>> ELSE Head(ms).questions \o Flatten(Tail(ms))

\* The loop that maps the flat id list back to the modules: each module takes
\* the slice [currentIndex, currentIndex + count) of the ids.
RECURSIVE SliceIds(_, _, _)
SliceIds(ms, ids, currentIndex) ==
  IF ms = <<>> THEN <<>>
  ELSE LET count == Len(Head(ms).questions)
       IN  <<[moduleNumber |-> Head(ms).moduleNumber,
              questionIds |-> Slice(ids, currentIndex, currentIndex + count)]>>
           \o SliceIds(Tail(ms), ids, currentIndex + count)

MapQuestionIds(ms, ids) == SliceIds(ms, ids, 0)

\* `TESTSECTION${moduleNumber}`
TestSectionId(moduleNumber) == <<"TESTSECTION", moduleNumber>>

\* The nested loop that builds the linking rows; orderCounter++ per row.
RECURSIVE LinkRows(_, _, _)
LinkRows(mqi, tid, orderCounter) ==
  IF mqi = <<>> THEN <<>>
  ELSE LET ids == Head(mqi).questionIds
           rows == [k \in 1..Len(ids) |->
                      [question_id |-> ids[k],
                       test_section_id |-> TestSectionId(Head(mqi).moduleNumber),
                       test_id |-> tid,
                       order_in_test |-> orderCounter + (k - 1)]]
       IN  rows \o LinkRows(Tail(mqi), tid, orderCounter + Len(ids))

BuildTestQuestions(mqi, tid) == LinkRows(mqi, tid, 1)

\* A full test taken to be one that reaches the last section.
IsFullTestByLastSection(ms) ==
  \E m \in DOMAIN ms : ms[m].moduleNumber = MaxModuleNumber

\* is_full_test: modules.length === 4
IsFullTest(ms) == Len(ms) = FullTestModules

NewTest(ms, t, d) ==
  [title |-> t, description |-> d, is_full_test |-> IsFullTest(ms)]

ModuleNumbers(ms) == [m \in 1..Len(ms) |-> ms[m].moduleNumber]

\* The filter with section 3 forgotten.
IsMathModuleOnlyFour(num) == num = MathModuleHigh

\* moduleNumbers.filter((num) => num === 3 || num === 4)
IsMathModule(num) == num = MathModuleLow \/ num = MathModuleHigh

MathModules(nums) == SelectSeq(nums, IsMathModule)

\* UploadProgress {stage, current, total}; the message is a function of them.
\* The event carrying the loop index i instead of i + 1.
ProgressZeroBased(stage, current, total) ==
  [stage |-> stage, current |-> current - 1, total |-> total]

Progress(stage, current, total) ==
  [stage |-> stage, current |-> current, total |-> total]

\* Error messages: the text before the store's own message, and the 1-based
\* position it names (0: the message names none).
Failure(message, position) == [message |-> message, position |-> position]

\* The question insert's error left unchecked.
QuestionErrorIgnored(r) == FALSE

\* The message naming the 0-based index i.
QuestionFailureZeroBased(idx) == Failure("Failed to upload question", idx)

\* The linking insert's error left unchecked.
LinkErrorIgnored(r) == FALSE

\* if (error) after a question insert: throw, naming position i + 1.
QuestionError(r) == r.error

QuestionFailure(idx) == Failure("Failed to upload question", idx + 1)

\* if (data?.question_id) questionIds.push(data.question_id)
PushQuestionId(ids, r) == IF r.data # <<>> THEN Append(ids, r.data[1]) ELSE ids

\* if (error) after the test insert, then if (!data?.test_id).
TestError(r) == r.error

TestIdMissing(r) == r.data = <<>>

\* if (error) after a linking insert: throw, naming position i + 1.
LinkError(r) == r.error

LinkFailure(idx) == Failure("Failed to link question", idx + 1)

\* Store calls.
InsertCall(table, record) == [table |-> table, op |-> "insert", record |-> <<record>>]

UpdateSectionCall(sectionId) ==
  [table |-> "test_sections", op |-> "update", record |-> <<sectionId>>]

\* No file is being read.
NoSheet == [headers |-> <<>>, rows |-> <<>>]

IntakeIdle ==
  /\ sheet = NoSheet
  /\ ppc = "none"
  /\ rowIndex = 0
  /\ resolvedIds = <<>>
  /\ questions = <<>>
  /\ skippedRows = 0
  /\ rejection = ""
  /\ converted = <<>>
  /\ isLoading = FALSE
  /\ selection = <<>>
  /\ clock = 0
  /\ edits = 0

\* ------------------------------------------------------------------- Init
\* The page before an upload: a file list and the form fields; no upload is
\* running, the store is empty.
Init ==
  /\ files \in PageFileLists
  /\ testTitle \in Titles
  /\ testDescription \in Descriptions
  /\ error = <<>>
  /\ success = <<>>
  /\ isUploading = FALSE
  /\ uploadProgress = <<>>
  /\ caller = "none"
  /\ modules = <<>>
  /\ title = <<>>
  /\ description = ""
  /\ pc = "idle"
  /\ allQuestions = <<>>
  /\ i = 0
  /\ questionIds = <<>>
  /\ moduleQuestionIds = <<>>
  /\ test = <<>>
  /\ testId = <<>>
  /\ mathModules = <<>>
  /\ testQuestions = <<>>
  /\ thrown = <<>>
  /\ result = <<>>
  /\ pending = <<>>
  /\ reply = <<>>
  /\ db = [questions |-> <<>>, tests |-> <<>>, test_questions |-> <<>>,
           test_sections |-> {}]
  /\ calls = <<>>
  /\ events = <<>>
  /\ earlier = <<>>
  /\ IntakeIdle

\* ------------------------------------------------------ orchestrator steps
SetLocals(aq, ii, qids, mqi, t, tid, mm, tq) ==
  /\ allQuestions' = aq
  /\ i' = ii
  /\ questionIds' = qids
  /\ moduleQuestionIds' = mqi
  /\ test' = t
  /\ testId' = tid
  /\ mathModules' = mm
  /\ testQuestions' = tq

\* onProgress?.(event): the sink records it; the page's sink is
\* setUploadProgress.
Notify(cl, evs) ==
  /\ events' = events \o evs
  /\ uploadProgress' =
       IF cl = "page" /\ evs # <<>> THEN <<evs[Len(evs)]>> ELSE uploadProgress

\* await supabase.from(table)...: the call goes out and the function waits.
Send(call) ==
  /\ pending' = <<call>>
  /\ reply' = <<>>
  /\ calls' = Append(calls, [call |-> call, reply |-> <<>>])

\* The awaited call is consumed and no new one is issued.
NoSend ==
  /\ pending' = <<>>
  /\ reply' = <<>>
  /\ calls' = calls

\* The throw with the "complete" event emitted on the way out, as a finally
\* block would emit it.
ThrowAfterComplete(failure) ==
  /\ pc' = "thrown"
  /\ thrown' = <<failure>>
  /\ result' = result
  /\ NoSend
  /\ Notify(caller, <<[stage |-> "complete", current |-> Len(testQuestions),
                       total |-> Len(testQuestions)]>>)
  /\ UNCHANGED <<allQuestions, i, questionIds, moduleQuestionIds, test, testId,
                 mathModules, testQuestions>>

\* throw new Error(...), rethrown by uploadBulkData's catch.
Throw(failure) ==
  /\ pc' = "thrown"
  /\ thrown' = <<failure>>
  /\ result' = result
  /\ NoSend
  /\ events' = events
  /\ uploadProgress' = uploadProgress
  /\ UNCHANGED <<allQuestions, i, questionIds, moduleQuestionIds, test, testId,
                 mathModules, testQuestions>>

\* uploadTestQuestions(testQuestions) entered with the built rows, then the
\* "complete" event and the return value when no row is left to insert.
EnterUploadTestQuestions(cl, aq, qids, mqi, t, tid, mm) ==
  LET tq == BuildTestQuestions(mqi, tid[1])
  IN  IF Len(tq) = 0
      THEN /\ pc' = "returned"
           /\ SetLocals(aq, 0, qids, mqi, t, tid, mm, tq)
           /\ result' = <<[test_id |-> tid[1], total_questions |-> Len(aq)]>>
           /\ thrown' = thrown
           /\ NoSend
           /\ Notify(cl, <<Progress("complete", Len(tq), Len(tq))>>)
      ELSE /\ pc' = "uploadTestQuestions"
           /\ SetLocals(aq, 0, qids, mqi, t, tid, mm, tq)
           /\ UNCHANGED <<result, thrown>>
           /\ Send(InsertCall("test_questions", tq[1]))
           /\ Notify(cl, <<Progress("test_questions", 1, Len(tq))>>)

\* updateTestSections(moduleNumbers) entered after createTest returned tid.
EnterUpdateTestSections(cl, ms, aq, qids, mqi, t, tid) ==
  LET mm == MathModules(ModuleNumbers(ms))
  IN  IF Len(mm) = 0
      THEN EnterUploadTestQuestions(cl, aq, qids, mqi, t, tid, mm)
      ELSE /\ pc' = "updateTestSections"
           /\ SetLocals(aq, 0, qids, mqi, t, tid, mm, <<>>)
           /\ UNCHANGED <<result, thrown>>
           /\ Send(UpdateSectionCall(TestSectionId(mm[1])))
           /\ Notify(cl, <<>>)

\* The id mapping, the test record and createTest(test), entered after
\* uploadQuestions returned qids.
EnterCreateTest(cl, ms, t, d, aq, qids) ==
  /\ pc' = "createTest"
  /\ SetLocals(aq, Len(aq), qids, MapQuestionIds(ms, qids), <<NewTest(ms, t, d)>>,
               <<>>, <<>>, <<>>)
  /\ UNCHANGED <<result, thrown>>
  /\ Send(InsertCall("tests", NewTest(ms, t, d)))
  /\ Notify(cl, <<Progress("test", 1, 1)>>)

\* uploadBulkData(ms, t, d, onProgress) up to its first await.
EnterUploadBulkData(cl, ms, t, d) ==
  LET aq == Flatten(ms)
  IN  /\ caller' = cl
      /\ modules' = ms
      /\ title' = t
      /\ description' = d
      /\ IF Len(aq) = 0
         THEN EnterCreateTest(cl, ms, t, d, aq, <<>>)
         ELSE /\ pc' = "uploadQuestions"
              /\ SetLocals(aq, 0, <<>>, <<>>, <<>>, <<>>, <<>>, <<>>)
              /\ UNCHANGED <<result, thrown>>
              /\ Send(InsertCall("questions", aq[1]))
              /\ Notify(cl, <<Progress("questions", 1, Len(aq))>>)

\* ------------------------------------------------------------ entry points
\* files.map((f) => ({moduleNumber: f.moduleNumber, questions: f.questions}))
ModulesOf(fs) ==
  [k \in DOMAIN fs |-> [moduleNumber |-> fs[k].moduleNumber, questions |-> fs[k].questions]]

\* handleUpload up to the await of uploadBulkData.
HandleUpload ==
  /\ pc = "idle"
  /\ IF Trim(testTitle) = <<>>
     THEN /\ error' = <<"Please enter a test title">>
          /\ UNCHANGED <<files, testTitle, testDescription, success, isUploading,
                         uploadProgress, argVars, pc, localVars, pending, reply,
                         db, calls, events, earlier, intakeVars>>
     ELSE IF Len(files) = 0
     THEN /\ error' = <<"Please upload at least one file">>
          /\ UNCHANGED <<files, testTitle, testDescription, success, isUploading,
                         uploadProgress, argVars, pc, localVars, pending, reply,
                         db, calls, events, earlier, intakeVars>>
     ELSE /\ isUploading' = TRUE
          /\ error' = <<>>
          /\ success' = <<>>
          /\ EnterUploadBulkData("page", ModulesOf(files), testTitle, testDescription)
          /\ UNCHANGED <<files, testTitle, testDescription, db, earlier, intakeVars>>

\* uploadBulkData is exported: a caller other than the page (it has no page
\* state) passes any arguments.
CallUploadBulkData ==
  /\ pc = "idle"
  /\ files = <<>> /\ testTitle = <<>> /\ testDescription = "" /\ error = <<>>
  /\ \E ms \in ModuleLists, t \in PassedTitles :
       EnterUploadBulkData("direct", ms, t, "")
  /\ UNCHANGED <<files, testTitle, testDescription, error, success, isUploading, db,
               earlier, intakeVars>>

\* ------------------------------------------------------------------ store
Outstanding == pending # <<>> /\ reply = <<>>

Answer(r) ==
  /\ reply' = <<r>>
  /\ calls' = [calls EXCEPT ![Len(calls)].reply = <<r>>]
  /\ UNCHANGED <<pageVars, argVars, pc, localVars, pending, events, earlier, intakeVars>>

Ok(data) == [error |-> FALSE, data |-> data]
Rejected == [error |-> TRUE, data |-> <<>>]

\* insert(record).select(idColumn).single(): the store rejects the record, or
\* keeps it under a new id and returns the row with its id, or returns no
\* error and no id (data?.question_id / data?.test_id is falsy).
StoreInsertSelect(table) ==
  /\ Outstanding
  /\ pending[1].table = table /\ pending[1].op = "insert"
  /\ LET id == Len(db[table]) + 1
         row == [id |-> id, record |-> pending[1].record[1]]
     IN  \/ /\ db' = db
            /\ Answer(Rejected)
         \/ /\ db' = [db EXCEPT ![table] = Append(@, row)]
            /\ Answer(Ok(<<id>>))
         \/ /\ db' = [db EXCEPT ![table] = Append(@, row)]
            /\ Answer(Ok(<<>>))

StoreInsertQuestion == StoreInsertSelect("questions")

StoreInsertTest == StoreInsertSelect("tests")

\* insert(record) with no select: the row is kept, or the store rejects it.
StoreInsertTestQuestion ==
  /\ Outstanding
  /\ pending[1].table = "test_questions" /\ pending[1].op = "insert"
  /\ LET id == Len(db.test_questions) + 1
         row == [id |-> id, record |-> pending[1].record[1]]
     IN  \/ /\ db' = db
            /\ Answer(Rejected)
         \/ /\ db' = [db EXCEPT !.test_questions = Append(@, row)]
            /\ Answer(Ok(<<>>))

\* update({is_desmos_allowed: true, is_math_section: true}).eq(test_section_id)
StoreUpdateTestSection ==
  /\ Outstanding
  /\ pending[1].table = "test_sections" /\ pending[1].op = "update"
  /\ \/ /\ db' = db
        /\ Answer(Rejected)
     \/ /\ db' = [db EXCEPT !.test_sections = @ \cup {pending[1].record[1]}]
        /\ Answer(Ok(<<>>))

\* ------------------------------------------------------------ continuations
\* uploadQuestions issuing the next insert without awaiting the previous one
\* (the loop body's promise left floating).
QuestionInsertedUnawaited ==
  /\ pc = "uploadQuestions"
  /\ pending # <<>>
  /\ UNCHANGED <<files, testTitle, testDescription, error, success, isUploading,
                 argVars, db, earlier, intakeVars>>
  /\ IF i + 1 < Len(allQuestions)
     THEN /\ pc' = "uploadQuestions"
          /\ SetLocals(allQuestions, i + 1, questionIds, <<>>, <<>>, <<>>, <<>>, <<>>)
          /\ UNCHANGED <<result, thrown>>
          /\ Send(InsertCall("questions", allQuestions[i + 2]))
          /\ Notify(caller, <<Progress("questions", i + 2, Len(allQuestions))>>)
     ELSE EnterCreateTest(caller, modules, title, description,
                          allQuestions, questionIds)

\* uploadQuestions resumes after the insert of questions[i].
QuestionInserted ==
  /\ pc = "uploadQuestions"
  /\ reply # <<>>
  /\ UNCHANGED <<files, testTitle, testDescription, error, success, isUploading,
                 argVars, db, earlier, intakeVars>>
  /\ IF QuestionError(reply[1])
     THEN Throw(QuestionFailure(i))
     ELSE LET qids == PushQuestionId(questionIds, reply[1])
          IN  IF i + 1 < Len(allQuestions)
              THEN /\ pc' = "uploadQuestions"
                   /\ SetLocals(allQuestions, i + 1, qids, <<>>, <<>>, <<>>, <<>>, <<>>)
                   /\ UNCHANGED <<result, thrown>>
                   /\ Send(InsertCall("questions", allQuestions[i + 2]))
                   /\ Notify(caller, <<Progress("questions", i + 2, Len(allQuestions))>>)
              ELSE EnterCreateTest(caller, modules, title, description,
                                   allQuestions, qids)

\* createTest resumes after the insert of the test.
TestInserted ==
  /\ pc = "createTest"
  /\ reply # <<>>
  /\ UNCHANGED <<files, testTitle, testDescription, error, success, isUploading,
                 argVars, db, earlier, intakeVars>>
  /\ IF TestError(reply[1])
     THEN Throw(Failure("Failed to create test", 0))
     ELSE IF TestIdMissing(reply[1])
     THEN Throw(Failure("Test created but no test_id returned", 0))
     ELSE EnterUpdateTestSections(caller, modules, allQuestions, questionIds,
                                  moduleQuestionIds, test, reply[1].data)

\* updateTestSections throwing on an update error as the inserts do.
SectionUpdatedThrowing ==
  /\ pc = "updateTestSections"
  /\ reply # <<>>
  /\ UNCHANGED <<files, testTitle, testDescription, error, success, isUploading,
                 argVars, db, earlier, intakeVars>>
  /\ IF reply[1].error
     THEN Throw(Failure("Failed to update test section", i + 1))
     ELSE IF i + 1 < Len(mathModules)
     THEN /\ pc' = "updateTestSections"
          /\ SetLocals(allQuestions, i + 1, questionIds, moduleQuestionIds, test,
                       testId, mathModules, <<>>)
          /\ UNCHANGED <<result, thrown>>
          /\ Send(UpdateSectionCall(TestSectionId(mathModules[i + 2])))
          /\ Notify(caller, <<>>)
     ELSE EnterUploadTestQuestions(caller, allQuestions, questionIds,
                                   moduleQuestionIds, test, testId, mathModules)

\* updateTestSections resumes after the update of mathModules[i]: an error is
\* logged, never thrown.
SectionUpdated ==
  /\ pc = "updateTestSections"
  /\ reply # <<>>
  /\ UNCHANGED <<files, testTitle, testDescription, error, success, isUploading,
                 argVars, db, earlier, intakeVars>>
  /\ IF i + 1 < Len(mathModules)
     THEN /\ pc' = "updateTestSections"
          /\ SetLocals(allQuestions, i + 1, questionIds, moduleQuestionIds, test,
                       testId, mathModules, <<>>)
          /\ UNCHANGED <<result, thrown>>
          /\ Send(UpdateSectionCall(TestSectionId(mathModules[i + 2])))
          /\ Notify(caller, <<>>)
     ELSE EnterUploadTestQuestions(caller, allQuestions, questionIds,
                                   moduleQuestionIds, test, testId, mathModules)

\* uploadTestQuestions resumes after the insert of testQuestions[i]; after the
\* last one uploadBulkData emits "complete" and returns.
TestQuestionInserted ==
  /\ pc = "uploadTestQuestions"
  /\ reply # <<>>
  /\ UNCHANGED <<files, testTitle, testDescription, error, success, isUploading,
                 argVars, db, earlier, intakeVars>>
  /\ IF LinkError(reply[1])
     THEN Throw(LinkFailure(i))
     ELSE IF i + 1 < Len(testQuestions)
     THEN /\ pc' = "uploadTestQuestions"
          /\ SetLocals(allQuestions, i + 1, questionIds, moduleQuestionIds, test,
                       testId, mathModules, testQuestions)
          /\ UNCHANGED <<result, thrown>>
          /\ Send(InsertCall("test_questions", testQuestions[i + 2]))
          /\ Notify(caller, <<Progress("test_questions", i + 2, Len(testQuestions))>>)
     ELSE /\ pc' = "returned"
          /\ SetLocals(allQuestions, i + 1, questionIds, moduleQuestionIds, test,
                       testId, mathModules, testQuestions)
          /\ result' = <<[test_id |-> testId[1], total_questions |-> Len(allQuestions)]>>
          /\ thrown' = thrown
          /\ NoSend
          /\ Notify(caller, <<Progress("complete", Len(testQuestions), Len(testQuestions))>>)

\* handleUpload resuming with the form cleared in the catch as well.
HandleUploadSettledClearing ==
  /\ caller = "page"
  /\ pc \in {"returned", "thrown"}
  /\ IF pc = "returned"
     THEN /\ success' = result
          /\ error' = error
     ELSE /\ error' = <<thrown[1].message>>
          /\ success' = success
  /\ files' = <<>>
  /\ testTitle' = <<>>
  /\ testDescription' = ""
  /\ isUploading' = FALSE
  /\ uploadProgress' = <<>>
  /\ pc' = "settled"
  /\ UNCHANGED <<argVars, localVars, pending, reply, db, calls, events, earlier, intakeVars>>

\* handleUpload resumes after uploadBulkData settled: the success branch or
\* the catch, then the finally.
HandleUploadSettled ==
  /\ caller = "page"
  /\ pc \in {"returned", "thrown"}
  /\ IF pc = "returned"
     THEN /\ success' = result
          /\ files' = <<>>
          /\ testTitle' = <<>>
          /\ testDescription' = ""
          /\ error' = error
     ELSE /\ error' = <<thrown[1].message>>
          /\ UNCHANGED <<files, testTitle, testDescription, success>>
  /\ isUploading' = FALSE
  /\ uploadProgress' = <<>>
  /\ pc' = "settled"
  /\ UNCHANGED <<argVars, localVars, pending, reply, db, calls, events, earlier, intakeVars>>

Next ==
  \/ HandleUpload
  \/ CallUploadBulkData
  \/ StoreInsertQuestion
  \/ StoreInsertTest
  \/ StoreInsertTestQuestion
  \/ StoreUpdateTestSection
  \/ QuestionInserted
  \/ TestInserted
  \/ SectionUpdated
  \/ TestQuestionInserted
  \/ HandleUploadSettled

Spec == Init /\ [][Next]_vars

\* ------------------------------------------------------------ a new attempt
\* After a failed attempt the page keeps files, testTitle and
\* testDescription (only the success branch clears them) and the Upload
\* button is enabled again (isUploading is false): the user presses it.

\* What a failed attempt leaves behind: the modules it was given and the
\* question rows the store holds when Upload is pressed again.
Attempt == [modules |-> modules, questions |-> db.questions]

\* handleUpload picking up after the questions the store already holds.
HandleUploadResuming ==
  /\ pc = "settled"
  /\ thrown # <<>>
  /\ Len(earlier) < MaxRetries
  /\ Trim(testTitle) # <<>>
  /\ Len(files) # 0
  /\ isUploading' = TRUE
  /\ error' = <<>>
  /\ success' = <<>>
  /\ earlier' = Append(earlier, Attempt)
  /\ caller' = "page"
  /\ modules' = ModulesOf(files)
  /\ title' = testTitle
  /\ description' = testDescription
  /\ LET aq == Flatten(files)
         done == IF Len(db.questions) < Len(aq) THEN Len(db.questions) ELSE Len(aq) - 1
         ev == Progress("questions", done + 1, Len(aq))
     IN  /\ pc' = "uploadQuestions"
         /\ SetLocals(aq, done, <<>>, <<>>, <<>>, <<>>, <<>>, <<>>)
         /\ result' = <<>>
         /\ thrown' = <<>>
         /\ pending' = <<InsertCall("questions", aq[done + 1])>>
         /\ reply' = <<>>
         /\ calls' = <<[call |-> InsertCall("questions", aq[done + 1]), reply |-> <<>>]>>
         /\ events' = <<ev>>
         /\ uploadProgress' = <<ev>>
  /\ UNCHANGED <<files, testTitle, testDescription, db, intakeVars>>

\* handleUpload pressed again: the same checks, then a new call of
\* uploadBulkData with the files the page still holds; the call starts from
\* fresh locals (allQuestions is rebuilt, the loop starts at i = 0).
HandleUploadAgain ==
  /\ pc = "settled"
  /\ thrown # <<>>
  /\ Len(earlier) < MaxRetries
  /\ Trim(testTitle) # <<>>
  /\ Len(files) # 0
  /\ isUploading' = TRUE
  /\ error' = <<>>
  /\ success' = <<>>
  /\ earlier' = Append(earlier, Attempt)
  /\ caller' = "page"
  /\ modules' = ModulesOf(files)
  /\ title' = testTitle
  /\ description' = testDescription
  /\ LET aq == Flatten(files)
         ev == Progress("questions", 1, Len(aq))
     IN  /\ pc' = "uploadQuestions"
         /\ SetLocals(aq, 0, <<>>, <<>>, <<>>, <<>>, <<>>, <<>>)
         /\ result' = <<>>
         /\ thrown' = <<>>
         /\ pending' = <<InsertCall("questions", aq[1])>>
         /\ reply' = <<>>
         /\ calls' = <<[call |-> InsertCall("questions", aq[1]), reply |-> <<>>]>>
         /\ events' = <<ev>>
         /\ uploadProgress' = <<ev>>
  /\ UNCHANGED <<files, testTitle, testDescription, db, intakeVars>>

\* The page with a title typed in, before the first attempt.
InitRetry ==
  /\ Init
  /\ Len(Flatten(files)) <= MaxRetryQuestions
  /\ testTitle = <<"T">>
  /\ testDescription = ""

NextRetry ==
  \/ HandleUpload
  \/ StoreInsertQuestion
  \/ StoreInsertTest
  \/ StoreInsertTestQuestion
  \/ StoreUpdateTestSection
  \/ QuestionInserted
  \/ TestInserted
  \/ SectionUpdated
  \/ TestQuestionInserted
  \/ HandleUploadSettled
  \/ HandleUploadAgain

SpecRetry == InitRetry /\ [][NextRetry]_vars

\* ---------------------------------------------------------- excel-parser
\* Strings are sequences of characters, so that the conversions below act on
\* the characters as the JavaScript string methods do.
UpperLetters ==
  <<"A", "B", "C", "D", "E", "F", "G", "H", "I", "J", "K", "L", "M",
    "N", "O", "P", "Q", "R", "S", "T", "U", "V", "W", "X", "Y", "Z">>
LowerLetters ==
  <<"a", "b", "c", "d", "e", "f", "g", "h", "i", "j", "k", "l", "m",
    "n", "o", "p", "q", "r", "s", "t", "u", "v", "w", "x", "y", "z">>

ToLowerChar(c) ==
  IF \E k \in DOMAIN UpperLetters : UpperLetters[k] = c
  THEN LowerLetters[CHOOSE k \in DOMAIN UpperLetters : UpperLetters[k] = c]
  ELSE c

ToUpperChar(c) ==
  IF \E k \in DOMAIN LowerLetters : LowerLetters[k] = c
  THEN UpperLetters[CHOOSE k \in DOMAIN LowerLetters : LowerLetters[k] = c]
  ELSE c

\* String.prototype.toLowerCase, toUpperCase
ToLowerCase(s) == [k \in DOMAIN s |-> ToLowerChar(s[k])]
ToUpperCase(s) == [k \in DOMAIN s |-> ToUpperChar(s[k])]

\* The regular expression classes \s, [_\s] and [\t ], and the line
\* terminators the m flag lets ^ and $ match at.
IsWhitespace(c) == c \in {" ", "\t", "\n", "\r"}
IsKeySeparator(c) == c = "_" \/ IsWhitespace(c)
NotKeySeparator(c) == ~IsKeySeparator(c)
IsTabOrSpace(c) == c \in {"\t", " "}
IsLineBreak(c) == c \in {"\n", "\r"}

\* normalizeKey: key.toLowerCase().replace(/[_\s]/g, "")
NormalizeKey(key) == SelectSeq(ToLowerCase(key), NotKeySeparator)

\* Where pat occurs in s.
Occurrences(s, pat) ==
  {k \in 1..(Len(s) - Len(pat) + 1) : SubSeq(s, k, k + Len(pat) - 1) = pat}

Min(S) == CHOOSE x \in S : \A y \in S : x <= y
Max(S) == CHOOSE x \in S : \A y \in S : x >= y

\* String.prototype.replace(pat, rep) with a string pattern: the first
\* occurrence only.
Replace(s, pat, rep) ==
  IF Occurrences(s, pat) = {} THEN s
  ELSE LET k == Min(Occurrences(s, pat))
       IN  SubSeq(s, 1, k - 1) \o rep \o SubSeq(s, k + Len(pat), Len(s))

\* String.prototype.replace(/pat/g, rep): every occurrence, left to right.
RECURSIVE ReplaceAll(_, _, _)
ReplaceAll(s, pat, rep) ==
  IF Occurrences(s, pat) = {} THEN s
  ELSE LET k == Min(Occurrences(s, pat))
       IN  SubSeq(s, 1, k - 1) \o rep
             \o ReplaceAll(SubSeq(s, k + Len(pat), Len(s)), pat, rep)

\* trimPreserveLinebreaks: str.replace(/^[\t ]+|[\t ]+$/gm, ""): the tabs and
\* spaces that open or close a line go, the line breaks stay.
OpensLine(s, k) ==
  \E j \in 1..k :
    /\ j = 1 \/ IsLineBreak(s[j - 1])
    /\ \A t \in j..k : IsTabOrSpace(s[t])

ClosesLine(s, k) ==
  \E j \in k..Len(s) :
    /\ j = Len(s) \/ IsLineBreak(s[j + 1])
    /\ \A t \in k..j : IsTabOrSpace(s[t])

RECURSIVE KeepFrom(_, _)
KeepFrom(s, k) ==
  IF k > Len(s) THEN <<>>
  ELSE (IF OpensLine(s, k) \/ ClosesLine(s, k) THEN <<>> ELSE <<s[k]>>)
         \o KeepFrom(s, k + 1)

TrimPreserveLinebreaks(str) == KeepFrom(str, 1)

\* convertFracToDisplayFrac: str.replace(/\\frac/g, "\\dfrac")
ConvertFracToDisplayFrac(str) ==
  ReplaceAll(str, <<"\\", "f", "r", "a", "c">>, <<"\\", "d", "f", "r", "a", "c">>)

\* The column names and words the parser spells out.
S_questionid == <<"q", "u", "e", "s", "t", "i", "o", "n", "i", "d">>
S_referenceid == <<"r", "e", "f", "e", "r", "e", "n", "c", "e", "i", "d">>
S_question_id == <<"q", "u", "e", "s", "t", "i", "o", "n", "_", "i", "d">>
S_reference_id == <<"r", "e", "f", "e", "r", "e", "n", "c", "e", "_", "i", "d">>
S_question__id == <<"q", "u", "e", "s", "t", "i", "o", "n", " ", "i", "d">>
S_reference__id == <<"r", "e", "f", "e", "r", "e", "n", "c", "e", " ", "i", "d">>
S_difficulty == <<"d", "i", "f", "f", "i", "c", "u", "l", "t", "y">>
S_medium == <<"m", "e", "d", "i", "u", "m">>
S_hard == <<"h", "a", "r", "d">>
S_intense == <<"i", "n", "t", "e", "n", "s", "e">>
S_correct_answer == <<"c", "o", "r", "r", "e", "c", "t", "_", "a", "n", "s", "w", "e", "r">>
S_correct__answer == <<"c", "o", "r", "r", "e", "c", "t", " ", "a", "n", "s", "w", "e", "r">>
S_answer_a == <<"a", "n", "s", "w", "e", "r", "_", "a">>
S_option_a == <<"o", "p", "t", "i", "o", "n", "_", "a">>
S_option_1 == <<"o", "p", "t", "i", "o", "n", "_", "1">>
S_answer__a == <<"a", "n", "s", "w", "e", "r", " ", "a">>
S_option__a == <<"o", "p", "t", "i", "o", "n", " ", "a">>
S_option__1 == <<"o", "p", "t", "i", "o", "n", " ", "1">>
S_answer_b == <<"a", "n", "s", "w", "e", "r", "_", "b">>
S_option_b == <<"o", "p", "t", "i", "o", "n", "_", "b">>
S_option_2 == <<"o", "p", "t", "i", "o", "n", "_", "2">>
S_answer__b == <<"a", "n", "s", "w", "e", "r", " ", "b">>
S_option__b == <<"o", "p", "t", "i", "o", "n", " ", "b">>
S_option__2 == <<"o", "p", "t", "i", "o", "n", " ", "2">>
S_answer_c == <<"a", "n", "s", "w", "e", "r", "_", "c">>
S_option_c == <<"o", "p", "t", "i", "o", "n", "_", "c">>
S_option_3 == <<"o", "p", "t", "i", "o", "n", "_", "3">>
S_answer__c == <<"a", "n", "s", "w", "e", "r", " ", "c">>
S_option__c == <<"o", "p", "t", "i", "o", "n", " ", "c">>
S_option__3 == <<"o", "p", "t", "i", "o", "n", " ", "3">>
S_answer_d == <<"a", "n", "s", "w", "e", "r", "_", "d">>
S_option_d == <<"o", "p", "t", "i", "o", "n", "_", "d">>
S_option_4 == <<"o", "p", "t", "i", "o", "n", "_", "4">>
S_answer__d == <<"a", "n", "s", "w", "e", "r", " ", "d">>
S_option__d == <<"o", "p", "t", "i", "o", "n", " ", "d">>
S_option__4 == <<"o", "p", "t", "i", "o", "n", " ", "4">>

\* requiredHeaders, and requiredHeaders.some((req) =>
\* normalizedHeaders.includes(normalizeKey(req)))
RequiredHeaders == <<S_questionid, S_referenceid, S_question_id, S_reference_id>>

\* The header check letting every header row through.
AnyHeaderAccepted(headers) == TRUE

HasRequiredHeader(headers) ==
  \E r \in DOMAIN RequiredHeaders :
    \E h \in DOMAIN headers :
      NormalizeKey(headers[h]) = NormalizeKey(RequiredHeaders[r])

\* A row of jsonData: its keys in Object.keys order, each with its cell.
RowOf(sh, r) ==
  [c \in DOMAIN sh.headers |-> [key |-> sh.headers[c], value |-> sh.rows[r][c]]]

\* normalizedRow[normalizeKey(key)] = row[key] for each key in turn: a later
\* key that normalizes to the same name replaces the earlier one's value.
NormalizedRow(rw) ==
  LET names == {NormalizeKey(rw[c].key) : c \in DOMAIN rw}
  IN  [n \in names |->
         rw[Max({c \in DOMAIN rw : NormalizeKey(rw[c].key) = n})].value]

\* A string is truthy when it is not empty; a || b.
Truthy(v) == v # <<>>
OrElse(v, d) == IF Truthy(v) THEN v ELSE d

\* getValue(row, primary, fallbacks)
GetValue(rw, primary, fallbacks) ==
  LET nr == NormalizedRow(rw)
      Hit(name) == NormalizeKey(name) \in DOMAIN nr /\ Truthy(nr[NormalizeKey(name)])
      hits == SelectSeq(<<primary>> \o fallbacks, Hit)
  IN  IF hits = <<>> THEN <<>> ELSE nr[NormalizeKey(hits[1])]

QuestionId(rw) ==
  GetValue(rw, S_question_id, <<S_reference_id, S_question__id, S_reference__id>>)

\* The skip test without the trim.
IsSkippedEmptyOnly(questionId) == ~Truthy(questionId)

\* if (!questionId || String(questionId).trim() === "")
IsSkipped(questionId) == ~Truthy(questionId) \/ Trim(questionId) = <<>>

\* "hard" replaced only when it is the whole difficulty.
DifficultyWholeToken(rw) ==
  LET d == Trim(ToLowerCase(OrElse(GetValue(rw, S_difficulty, <<>>), S_medium)))
  IN  IF d = S_hard THEN S_intense ELSE d

\* String(getValue(row, "difficulty") || "medium").toLowerCase().trim()
\*   .replace("hard", "intense")
Difficulty(rw) ==
  Replace(Trim(ToLowerCase(OrElse(GetValue(rw, S_difficulty, <<>>), S_medium))),
          S_hard, S_intense)

AnswerText(value) == ConvertFracToDisplayFrac(TrimPreserveLinebreaks(OrElse(value, <<>>)))

AnswerA(rw) ==
  AnswerText(GetValue(rw, S_answer_a,
                      <<S_option_a, S_option_1, S_answer__a, S_option__a, S_option__1>>))

AnswerB(rw) ==
  AnswerText(GetValue(rw, S_answer_b,
                      <<S_option_b, S_option_2, S_answer__b, S_option__b, S_option__2>>))

AnswerC(rw) ==
  AnswerText(GetValue(rw, S_answer_c,
                      <<S_option_c, S_option_3, S_answer__c, S_option__c, S_option__3>>))

AnswerD(rw) ==
  AnswerText(GetValue(rw, S_answer_d,
                      <<S_option_d, S_option_4, S_answer__d, S_option__d, S_option__4>>))

\* String(getValue(row, "correct_answer", ["correct answer"]) || "").trim()
\*   .toUpperCase()
CorrectAnswer(rw) ==
  ToUpperCase(Trim(OrElse(GetValue(rw, S_correct_answer, <<S_correct__answer>>), <<>>)))

\* questions.push({...}): the fields of ParsedQuestion that the conversion
\* reads or the properties below speak of (tag, instructions, question_text and
\* explanation are text carried along in the same way as the answers).
ParsedQuestionOf(rw, questionId) ==
  [reference_id |-> Trim(questionId),
   difficulty |-> Difficulty(rw),
   answer_a |-> AnswerA(rw),
   answer_b |-> AnswerB(rw),
   answer_c |-> AnswerC(rw),
   answer_d |-> AnswerD(rw),
   correct_answer |-> CorrectAnswer(rw)]

\* The letter's index counted from 0.
AnswerMapZeroBased(letter) ==
  CASE letter = <<"A">> -> <<"0">>
    [] letter = <<"B">> -> <<"1">>
    [] letter = <<"C">> -> <<"2">>
    [] letter = <<"D">> -> <<"3">>
    [] OTHER -> <<>>

\* answerMap[letter]: undefined (here the empty string, falsy as well) for
\* any other key.
AnswerMap(letter) ==
  CASE letter = <<"A">> -> <<"1">>
    [] letter = <<"B">> -> <<"2">>
    [] letter = <<"C">> -> <<"3">>
    [] letter = <<"D">> -> <<"4">>
    [] OTHER -> <<>>

\* .filter((choice) => choice !== "")
NotEmptyString(choice) == choice # <<>>

ConvertToQuestion(parsed) ==
  LET answerChoices ==
        SelectSeq(<<parsed.answer_a, parsed.answer_b, parsed.answer_c, parsed.answer_d>>,
                  NotEmptyString)
      isNumeric == Len(answerChoices) = 0
  IN  [reference_id |-> parsed.reference_id,
       question_type |-> IF isNumeric THEN "numeric" ELSE "multiple_choice",
       difficulty |-> parsed.difficulty,
       answer_choices |-> answerChoices,
       correct_answer |-> IF isNumeric THEN parsed.correct_answer
                          ELSE OrElse(AnswerMap(parsed.correct_answer), <<"1">>)]

\* parsedQuestions.map(convertToQuestion)
ConvertParsedQuestions(ps) == [k \in DOMAIN ps |-> ConvertToQuestion(ps[k])]

\* ------------------------------------------------------- sheets to be read
\* Header rows as people type them, and the cells under each kind of column.
S_Question__ID == <<"Q", "u", "e", "s", "t", "i", "o", "n", " ", "I", "D">>
S_QUESTION_ID == <<"Q", "U", "E", "S", "T", "I", "O", "N", "_", "I", "D">>
S_Reference__ID == <<"R", "e", "f", "e", "r", "e", "n", "c", "e", " ", "I", "D">>
S_Difficulty == <<"D", "i", "f", "f", "i", "c", "u", "l", "t", "y">>
S_id == <<"i", "d">>
S_Correct__Answer == <<"C", "o", "r", "r", "e", "c", "t", " ", "A", "n", "s", "w", "e", "r">>
S_Option__A == <<"O", "p", "t", "i", "o", "n", " ", "A">>

HeaderRows ==
  {<<S_question_id>>,
   <<S_Question__ID, S_Difficulty>>,
   <<S_question_id, S_Question__ID>>,
   <<S_reference_id, S_question_id>>,
   <<S_Reference__ID, S_reference_id>>,
   <<S_id, S_difficulty>>,
   <<S_QUESTION_ID, S_Correct__Answer>>,
   <<S_question_id, S_Option__A>>}

IdHeaders ==
  {S_question_id, S_Question__ID, S_QUESTION_ID, S_reference_id, S_Reference__ID, S_id}
IdCells == {<<>>, <<" ">>, <<"Q">>, <<"R", " ">>}
S_Hard == <<"H", "a", "r", "d">>
S_Very__Hard__Level ==
  <<"V", "e", "r", "y", " ", "H", "a", "r", "d", " ", "L", "e", "v", "e", "l">>
DifficultyCells == {<<>>, S_Hard, S_Very__Hard__Level, <<" ", "E", "A", "S", "Y", " ">>}
CorrectCells == {<<>>, <<" ", "b">>, <<"E">>}
OptionCells == {<<>>, <<" ", "x", " ">>, <<"\\", "f", "r", "a", "c", "\n", " ", "y">>}

CellsOf(header) ==
  IF header \in IdHeaders THEN IdCells
  ELSE IF header \in {S_difficulty, S_Difficulty} THEN DifficultyCells
  ELSE IF header = S_Correct__Answer THEN CorrectCells
  ELSE OptionCells

AllCells == IdCells \cup DifficultyCells \cup CorrectCells \cup OptionCells

RowsUnder(headers) ==
  {cells \in [DOMAIN headers -> AllCells] :
     \A c \in DOMAIN headers : cells[c] \in CellsOf(headers[c])}

\* sheet_to_json(worksheet, {defval: ""}): every row carries every header.
SheetsUnder(h) ==
  {[headers |-> h, rows |-> rs] :
     rs \in UNION {[1..n -> RowsUnder(h)] : n \in 0..MaxRows}}

Sheets == UNION {SheetsUnder(h) : h \in HeaderRows}

\* ------------------------------------------------------ parseExcelFile
\* uploadBulkData has not been called.
NoRun ==
  /\ caller = "none"
  /\ modules = <<>>
  /\ title = <<>>
  /\ description = ""
  /\ pc = "idle"
  /\ allQuestions = <<>>
  /\ i = 0
  /\ questionIds = <<>>
  /\ moduleQuestionIds = <<>>
  /\ test = <<>>
  /\ testId = <<>>
  /\ mathModules = <<>>
  /\ testQuestions = <<>>
  /\ thrown = <<>>
  /\ result = <<>>
  /\ pending = <<>>
  /\ reply = <<>>
  /\ db = [questions |-> <<>>, tests |-> <<>>, test_questions |-> <<>>,
           test_sections |-> {}]
  /\ calls = <<>>
  /\ events = <<>>
  /\ earlier = <<>>

\* The upload side at rest while a file is read.
UploadIdle ==
  /\ files = <<>>
  /\ testTitle = <<>>
  /\ testDescription = ""
  /\ error = <<>>
  /\ success = <<>>
  /\ isUploading = FALSE
  /\ uploadProgress = <<>>
  /\ NoRun

uploadVars == <<pageVars, argVars, pc, localVars, pending, reply, db, calls, events, earlier>>

\* reject(new Error(message)); return
Reject(message) ==
  /\ ppc' = "rejected"
  /\ rejection' = message
  /\ UNCHANGED <<sheet, rowIndex, resolvedIds, questions, skippedRows, converted>>

\* reader.onload up to the row loop: the two validations.
ParseBegin ==
  /\ ppc = "onload"
  /\ IF Len(sheet.rows) = 0
     THEN Reject("The Excel file is empty or has no data rows")
     ELSE IF ~HasRequiredHeader(sheet.headers)
     THEN Reject("Missing required column 'question_id' or 'reference_id'")
     ELSE /\ ppc' = "rows"
          /\ UNCHANGED <<sheet, rowIndex, resolvedIds, questions, skippedRows,
                         rejection, converted>>
  /\ UNCHANGED <<uploadVars, loaderVars>>

\* One turn of for (const row of jsonData).
ParseRow ==
  /\ ppc = "rows"
  /\ rowIndex < Len(sheet.rows)
  /\ LET rw == RowOf(sheet, rowIndex + 1)
         questionId == QuestionId(rw)
     IN  /\ rowIndex' = rowIndex + 1
         /\ resolvedIds' = Append(resolvedIds, questionId)
         /\ IF IsSkipped(questionId)
            THEN /\ skippedRows' = skippedRows + 1
                 /\ questions' = questions
            ELSE /\ skippedRows' = skippedRows
                 /\ questions' = Append(questions, ParsedQuestionOf(rw, questionId))
  /\ UNCHANGED <<sheet, ppc, rejection, converted>>
  /\ UNCHANGED <<uploadVars, loaderVars>>

\* After the loop: if (questions.length === 0) reject, else resolve(questions).
ParseEnd ==
  /\ ppc = "rows"
  /\ rowIndex = Len(sheet.rows)
  /\ IF Len(questions) = 0
     THEN Reject("No valid questions found in the Excel file")
     ELSE /\ ppc' = "resolved"
          /\ UNCHANGED <<sheet, rowIndex, resolvedIds, questions, skippedRows,
                         rejection, converted>>
  /\ UNCHANGED <<uploadVars, loaderVars>>

\* const questions = convertParsedQuestions(parsedQuestions)
Convert ==
  /\ ppc = "resolved"
  /\ converted' = ConvertParsedQuestions(questions)
  /\ ppc' = "converted"
  /\ UNCHANGED <<sheet, rowIndex, resolvedIds, questions, skippedRows, rejection>>
  /\ UNCHANGED <<uploadVars, loaderVars>>

\* A file has been chosen and read; reader.onload is about to run.
InitParse ==
  /\ UploadIdle
  /\ isLoading = FALSE /\ selection = <<>> /\ clock = 0 /\ edits = 0
  /\ sheet \in Sheets
  /\ ppc = "onload"
  /\ rowIndex = 0
  /\ resolvedIds = <<>>
  /\ questions = <<>>
  /\ skippedRows = 0
  /\ rejection = ""
  /\ converted = <<>>

NextParse ==
  \/ ParseBegin
  \/ ParseRow
  \/ ParseEnd
  \/ Convert

SpecParse == InitParse /\ [][NextParse]_vars

\* ------------------------------------------------- convertParsedQuestions
\* Parsed questions as parseExcelFile resolves them: each answer present or
\* empty, the correct answer trimmed and in upper case.
CorrectAnswers == {<<>>, <<"A">>, <<"B">>, <<"C">>, <<"D">>, <<"E">>, <<"4", "2">>}

ParsedInputs ==
  {[reference_id |-> <<"Q">>, difficulty |-> S_medium,
    answer_a |-> a, answer_b |-> b, answer_c |-> c, answer_d |-> d,
    correct_answer |-> ca] :
     a \in {<<>>, <<"p">>}, b \in {<<>>, <<"q">>}, c \in {<<>>, <<"r">>},
     d \in {<<>>, <<"s">>}, ca \in CorrectAnswers}

ParsedLists == UNION {[1..n -> ParsedInputs] : n \in 1..MaxParsed}

InitConvert ==
  /\ UploadIdle
  /\ isLoading = FALSE /\ selection = <<>> /\ clock = 0 /\ edits = 0
  /\ sheet = NoSheet
  /\ ppc = "resolved"
  /\ rowIndex = 0
  /\ resolvedIds = <<>>
  /\ questions \in ParsedLists
  /\ skippedRows = 0
  /\ rejection = ""
  /\ converted = <<>>

NextConvert == Convert

SpecConvert == InitConvert /\ [][NextConvert]_vars

\* --------------------------------------------------------- the file list
\* The page before any file is chosen, with a title typed in.
TitledPage ==
  /\ files = <<>>
  /\ testTitle = <<"T">>
  /\ testDescription = ""
  /\ error = <<>>
  /\ success = <<>>
  /\ isUploading = FALSE
  /\ uploadProgress = <<>>

InitPage ==
  /\ TitledPage
  /\ NoRun
  /\ IntakeIdle

\* <input type="file" multiple disabled={isLoading || isUploading ||
\* files.length >= 4}>
FileInputDisabled == isLoading \/ isUploading \/ Len(files) >= MaxFiles

\* The list with the module numbers it already carries.
RenumberKept(items) == items

\* .map((item, index) => ({...item, moduleNumber: index + 1}))
Renumber(items) == [k \in DOMAIN items |-> [items[k] EXCEPT !.moduleNumber = k]]

\* arrayMove(items, oldIndex, newIndex) of @dnd-kit/sortable
ArrayMove(items, oldIndex, newIndex) ==
  LET item == items[oldIndex]
      rest == SubSeq(items, 1, oldIndex - 1) \o SubSeq(items, oldIndex + 1, Len(items))
  IN  SubSeq(rest, 1, newIndex - 1) \o <<item>> \o SubSeq(rest, newIndex, Len(rest))

\* The file pushed for uploadedFiles[idx] of the call sel: its id is
\* `${Date.now()}-${idx}`, its module number counts on from the files value
\* the call's closure holds; its questions are what the parse resolved.
NewFile(sel, idx) ==
  [id |-> <<sel.at, idx>>,
   moduleNumber |-> Len(sel.files) + idx + 1,
   questions |-> <<<<sel.at, idx>>>>]

\* handleFileUpload up to the first await of parseExcelFile: n files chosen.
HandleFileUpload ==
  /\ ~FileInputDisabled
  /\ selection = <<>>
  /\ clock < MaxSelections
  /\ \E n \in 1..MaxChosen :
       selection' = <<[files |-> files, count |-> n, i |-> 0, newFiles |-> <<>>,
                       at |-> clock + 1]>>
  /\ clock' = clock + 1
  /\ isLoading' = TRUE
  /\ error' = <<>>
  /\ UNCHANGED <<files, testTitle, testDescription, success, isUploading,
                 uploadProgress, argVars, pc, localVars, pending, reply, db, calls,
                 events, earlier, parserVars, edits>>

\* parseExcelFile resolved for uploadedFiles[i]: the file is converted and
\* pushed; after the last one setFiles([...files, ...newFiles]) with the
\* closure's files, then the finally.
FileParsed ==
  /\ selection # <<>>
  /\ LET sel == selection[1]
         newFiles == Append(sel.newFiles, NewFile(sel, sel.i))
     IN  IF sel.i + 1 < sel.count
         THEN /\ selection' = <<[sel EXCEPT !.i = sel.i + 1, !.newFiles = newFiles]>>
              /\ UNCHANGED <<files, isLoading>>
         ELSE /\ files' = sel.files \o newFiles
              /\ isLoading' = FALSE
              /\ selection' = <<>>
  /\ UNCHANGED <<testTitle, testDescription, error, success, isUploading,
                 uploadProgress, argVars, pc, localVars, pending, reply, db, calls,
                 events, earlier, parserVars, clock, edits>>

\* parseExcelFile rejected for uploadedFiles[i]: the catch and the finally.
FileRejected ==
  /\ selection # <<>>
  /\ error' = <<"Failed to parse Excel files">>
  /\ isLoading' = FALSE
  /\ selection' = <<>>
  /\ UNCHANGED <<files, testTitle, testDescription, success, isUploading,
                 uploadProgress, argVars, pc, localVars, pending, reply, db, calls,
                 events, earlier, parserVars, clock, edits>>

\* handleDragEnd: the item at oldIndex dropped on the item at newIndex.
HandleDragEnd ==
  /\ edits < MaxEdits
  /\ edits' = edits + 1
  /\ \E oldIndex, newIndex \in DOMAIN files :
       /\ oldIndex # newIndex
       /\ files' = Renumber(ArrayMove(files, oldIndex, newIndex))
  /\ UNCHANGED <<testTitle, testDescription, error, success, isUploading,
                 uploadProgress, argVars, pc, localVars, pending, reply, db, calls,
                 events, earlier, parserVars, isLoading, selection, clock>>

\* handleRemove(id)
HandleRemove ==
  /\ edits < MaxEdits
  /\ edits' = edits + 1
  /\ \E k \in DOMAIN files :
       LET Others(f) == f.id # files[k].id
       IN  files' = Renumber(SelectSeq(files, Others))
  /\ UNCHANGED <<testTitle, testDescription, error, success, isUploading,
                 uploadProgress, argVars, pc, localVars, pending, reply, db, calls,
                 events, earlier, parserVars, isLoading, selection, clock>>

NextPage ==
  \/ HandleFileUpload
  \/ FileParsed
  \/ FileRejected
  \/ HandleDragEnd
  \/ HandleRemove
  \/ HandleUpload

SpecPage == InitPage /\ [][NextPage]_vars

\* ------------------------------------------------------- reading the log
\* calls is the run's store traffic in issue order, each call with its reply
\* once the store has answered.
Table(k) == calls[k].call.table
Returned(k) == calls[k].reply # <<>>
Failed(k) == Returned(k) /\ calls[k].reply[1].error
Succeeded(k) == Returned(k) /\ ~calls[k].reply[1].error
ReturnedId(k) == Succeeded(k) /\ calls[k].reply[1].data # <<>>
IdOf(k) == calls[k].reply[1].data[1]
RecordOf(k) == calls[k].call.record[1]

IsQuestionCall(c) == c.call.table = "questions"
IsTestCall(c) == c.call.table = "tests"
IsSectionCall(c) == c.call.table = "test_sections"
IsLinkCall(c) == c.call.table = "test_questions"
QuestionCalls == SelectSeq(calls, IsQuestionCall)
TestCalls == SelectSeq(calls, IsTestCall)
SectionCalls == SelectSeq(calls, IsSectionCall)
LinkCalls == SelectSeq(calls, IsLinkCall)

Records(rows) == [k \in DOMAIN rows |-> rows[k].record]
Started == caller # "none"
Supplied == Flatten(modules)
NoCallFailed == \A k \in DOMAIN calls : ~Failed(k)
\* The section of the module a question was supplied in.
SectionOfQuestion(q) == <<"TESTSECTION", modules[q[1]].moduleNumber>>

\* ------------------------------------------------------------- properties
\* C1: the tests insert is issued only after the insert of every question of
\* every module has returned without error, and every test_questions insert
\* is issued only after the tests insert has returned a test id.
C1_PhaseOrder ==
  \A k \in DOMAIN calls :
    /\ Table(k) = "tests" =>
         /\ k = Len(Supplied) + 1
         /\ \A j \in 1..(k - 1) :
              /\ Table(j) = "questions"
              /\ RecordOf(j) = Supplied[j]
              /\ Succeeded(j)
    /\ Table(k) = "test_questions" =>
         \E j \in 1..(k - 1) :
           /\ Table(j) = "tests"
           /\ ReturnedId(j)
           /\ RecordOf(k).test_id = IdOf(j)

C1_Witness ==
  /\ Len(modules) >= 2
  /\ Len(Supplied) >= 3
  /\ Len(LinkCalls) >= 2

\* C2: when no store call returns an error, the linking row of the j-th
\* question of the i-th module carries the id the store returned for that
\* question, that module's section and the returned test id, and no row
\* carries an id returned for a question of another module.
C2_IdsStayWithTheirModule ==
  (pc \in {"uploadTestQuestions", "returned"} /\ NoCallFailed) =>
    /\ \A m \in DOMAIN moduleQuestionIds :
         \A j \in DOMAIN moduleQuestionIds[m].questionIds :
           \E p \in DOMAIN Supplied :
             /\ Supplied[p] = <<m, j>>
             /\ ReturnedId(p)
             /\ moduleQuestionIds[m].questionIds[j] = IdOf(p)
    /\ \A r \in DOMAIN testQuestions :
         /\ testQuestions[r].test_id = testId[1]
         /\ \E p \in DOMAIN Supplied :
              /\ ReturnedId(p)
              /\ testQuestions[r].question_id = IdOf(p)
              /\ testQuestions[r].test_section_id = SectionOfQuestion(Supplied[p])

\* C3: in a run that returns over N questions the linking rows are inserted
\* with order_in_test = 1, 2, ..., N in insertion order.
C3_OrderCoversAllQuestions ==
  pc = "returned" =>
    /\ Len(LinkCalls) = Len(Supplied)
    /\ \A p \in DOMAIN LinkCalls : LinkCalls[p].call.record[1].order_in_test = p


\* C4: all uploads are transactional: whenever uploadBulkData ends with an
\* error, the store holds no questions, tests or test_questions row created
\* by that attempt.
C4_NothingSavedOnError ==
  pc = "thrown" =>
    /\ db.questions = <<>>
    /\ db.tests = <<>>
    /\ db.test_questions = <<>>

C7_EmptyTitleIssuesNoWrite ==
  (Started /\ title = <<>>) => (calls = <<>> /\ db.questions = <<>> /\ db.tests = <<>>)

IsBlank(s) == \A k \in DOMAIN s : s[k] = " "
DbEmpty == db.questions = <<>> /\ db.tests = <<>> /\ db.test_questions = <<>>

\* C7 as amended: handleUpload rejects an empty or whitespace-only title with
\* "Please enter a test title" before it calls uploadBulkData and before any
\* store write, so a run started by the page never carries a blank title.
C7_PageRejectsBlankTitle ==
  /\ caller = "page" => ~IsBlank(title)
  /\ error = <<"Please enter a test title">> =>
       /\ IsBlank(testTitle)
       /\ ~Started
       /\ pc = "idle"
       /\ ~isUploading
       /\ calls = <<>>
       /\ pending = <<>>
       /\ DbEmpty

C7_Witness ==
  /\ error = <<"Please enter a test title">>
  /\ testTitle = <<" ">>
  /\ Len(files) >= 1
  /\ calls = <<>>

\* The ids the question inserts returned, in issue order.
RECURSIVE IdsReturned(_)
IdsReturned(cs) ==
  IF cs = <<>> THEN <<>>
  ELSE (IF cs[1].reply # <<>> /\ ~cs[1].reply[1].error /\ cs[1].reply[1].data # <<>>
        THEN <<cs[1].reply[1].data[1]>> ELSE <<>>) \o IdsReturned(Tail(cs))

\* The linking rows the question and test replies alone determine.
RowsFromReplies ==
  BuildTestQuestions(MapQuestionIds(modules, IdsReturned(QuestionCalls)),
                     TestCalls[1].reply[1].data[1])

LinkRecords == [k \in DOMAIN LinkCalls |-> LinkCalls[k].call.record[1]]

\* C8: whatever a test_sections update returns, the run goes on to the same
\* test_questions inserts and the same result; an update failure never
\* reaches the caller and never aborts the sequence.
C8_SectionUpdateNeverAborts ==
  (\E k \in DOMAIN calls : Table(k) = "test_sections" /\ Returned(k)) =>
    LET rows == RowsFromReplies
        links == LinkRecords
        last == Len(calls)
    IN  /\ thrown # <<>> =>
             /\ thrown[1].message = "Failed to link question"
             /\ Failed(last) /\ Table(last) = "test_questions"
        /\ Table(last) = "test_sections" =>
             \/ pc = "updateTestSections" /\ pending # <<>>
             \/ /\ pc \in {"returned", "settled"}
                /\ rows = <<>>
        /\ \A k \in 1..(last - 1) :
             Table(k) = "test_sections" =>
               Table(k + 1) \in {"test_sections", "test_questions"}
        /\ Len(links) <= Len(rows)
        /\ links = SubSeq(rows, 1, Len(links))
        /\ (pc = "returned" \/ (pc = "settled" /\ thrown = <<>>)) =>
             /\ links = rows
             /\ result = <<[test_id |-> TestCalls[1].reply[1].data[1],
                            total_questions |-> Len(Supplied)]>>

C8_Witness ==
  /\ pc = "returned"
  /\ \E k \in DOMAIN calls : Table(k) = "test_sections" /\ Failed(k)
  /\ Len(LinkCalls) >= 2

IsThreeOrFour(n) == n \in {3, 4}
SectionRecords == [k \in DOMAIN SectionCalls |-> SectionCalls[k].call.record[1]]
ExpectedSections ==
  LET nums == SelectSeq([m \in DOMAIN modules |-> modules[m].moduleNumber], IsThreeOrFour)
  IN  [k \in DOMAIN nums |-> <<"TESTSECTION", nums[k]>>]

\* C9: a test_sections update for TESTSECTIONm is issued exactly for each
\* supplied module numbered 3 or 4, after the tests insert has succeeded and
\* before the first test_questions insert; none for modules numbered 1 or 2.
C9_SectionUpdates ==
  /\ Len(SectionRecords) <= Len(ExpectedSections)
  /\ SectionRecords = SubSeq(ExpectedSections, 1, Len(SectionRecords))
  /\ \A k \in DOMAIN calls :
       Table(k) = "test_sections" =>
         /\ calls[k].call.op = "update"
         /\ \E j \in 1..(k - 1) : Table(j) = "tests" /\ ReturnedId(j)
         /\ \A j \in 1..(k - 1) : Table(j) # "test_questions"
  /\ (LinkCalls # <<>> \/ pc = "returned" \/ (pc = "settled" /\ thrown = <<>>)) =>
       SectionRecords = ExpectedSections

C9_Witness ==
  /\ Len(modules) = 3
  /\ \E m \in DOMAIN modules : modules[m].moduleNumber \in {1, 2}
  /\ Len(SectionCalls) = 2
  /\ LinkCalls # <<>>

\* C10: exactly one tests record is inserted per run that reaches the test
\* phase, and its is_full_test flag is true iff exactly 4 modules were
\* supplied.
C10_OneTestFullIffFour ==
  /\ Len(TestCalls) <= 1
  /\ Len(db.tests) <= 1
  /\ (/\ Started
      /\ pc # "uploadQuestions"
      /\ (thrown = <<>> \/ thrown[1].message # "Failed to upload question")) =>
       Len(TestCalls) = 1
  /\ \A k \in DOMAIN calls :
       Table(k) = "tests" =>
         /\ calls[k].call.op = "insert"
         /\ RecordOf(k).is_full_test = (Len(modules) = 4)
         /\ RecordOf(k).title = title
  /\ \A k \in DOMAIN db.tests : db.tests[k].record.is_full_test = (Len(modules) = 4)

C10_Witness ==
  /\ Len(modules) = 4
  /\ Len(db.tests) = 1
  /\ db.tests[1].record.is_full_test
  /\ pc = "returned"

IsQuestionEvent(e) == e.stage = "questions"
QuestionEvents == SelectSeq(events, IsQuestionEvent)

\* C11: in a run with N questions, the questions phase has emitted exactly
\* one stage="questions" event per question insert issued, the k-th no later
\* than the k-th insert goes out and only after inserts 1..k-1 returned
\* without error, with current = k and total = N; once the k-th insert has
\* failed exactly k such events have been emitted, and no more follow.
C11_QuestionProgress ==
  /\ Len(QuestionEvents) = Len(QuestionCalls)
  /\ \A k \in DOMAIN QuestionEvents :
       /\ QuestionEvents[k] =
            [stage |-> "questions", current |-> k, total |-> Len(Supplied)]
       /\ events[k] = QuestionEvents[k]
       /\ k <= Len(Supplied)
       /\ \A j \in 1..(k - 1) : Table(j) = "questions" /\ Succeeded(j)
  /\ \A k \in DOMAIN calls :
       (Table(k) = "questions" /\ Failed(k)) =>
         /\ k = Len(calls)
         /\ Len(QuestionEvents) = k
         /\ Len(events) = k

C11_Witness ==
  /\ pc = "thrown"
  /\ Len(Supplied) = 3
  /\ Len(calls) = 2
  /\ Table(2) = "questions" /\ Failed(2)
  /\ Len(QuestionEvents) = 2
  /\ QuestionEvents[2].current = 2 /\ QuestionEvents[2].total = 3

IsCompleteEvent(e) == e.stage = "complete"
CompleteEvents == SelectSeq(events, IsCompleteEvent)
RunSucceeded == pc = "returned" \/ (pc = "settled" /\ thrown = <<>>)

\* C12: the stage="complete" event is emitted exactly once in a successful
\* run, as the last event and after every test_questions insert has
\* succeeded, with current = total = the number of linking rows inserted; it
\* is never emitted before the run has succeeded nor in a run that ends with
\* an error.
C12_CompleteOnceAtTheEnd ==
  /\ Len(CompleteEvents) = (IF RunSucceeded THEN 1 ELSE 0)
  /\ thrown # <<>> => CompleteEvents = <<>>
  /\ RunSucceeded =>
       LET e == events[Len(events)]
       IN  /\ e.stage = "complete"
           /\ e.current = Len(db.test_questions)
           /\ e.total = e.current
           /\ Len(LinkCalls) = e.current
           /\ \A k \in DOMAIN calls : Table(k) = "test_questions" => Succeeded(k)
           /\ Records(db.test_questions) = LinkRecords

C12_Witness ==
  /\ pc = "returned"
  /\ Len(db.test_questions) = 3
  /\ events[Len(events)] = [stage |-> "complete", current |-> 3, total |-> 3]
  /\ Len(events) = 8

\* C13: within one run at most one store write is outstanding at any time:
\* every call but the latest has returned, so each insert or update was
\* issued only after the previous one returned; and each store call is an
\* insert or an update carrying exactly one record.
C13_OneWriteAtATime ==
  /\ Len(pending) <= 1
  /\ \A k \in DOMAIN calls :
       /\ calls[k].call.op \in {"insert", "update"}
       /\ Len(calls[k].call.record) = 1
       /\ k < Len(calls) => Returned(k)
  /\ Cardinality({k \in DOMAIN calls : ~Returned(k)}) <= 1
  /\ Outstanding <=> (calls # <<>> /\ ~Returned(Len(calls)))
  /\ Outstanding => calls[Len(calls)].call = pending[1]

C13_Witness ==
  /\ Outstanding
  /\ Len(calls) = 7
  /\ pending[1].table = "test_questions"
  /\ Len(SectionCalls) = 1
  /\ \A k \in 1..6 : Returned(k)

\* C14: no state is carried between attempts and nothing is deduplicated: the
\* attempt made after a failed one, with the same modules, issues its question
\* inserts from position 1 in supplied order whatever the store already
\* holds, every insert that succeeds adds a new row under a new id and no
\* earlier row is removed, so once its question inserts have all succeeded
\* every question the failed attempt persisted is persisted a second time.
C14_RetryInsertsEverythingAgain ==
  earlier # <<>> =>
    LET before == earlier[Len(earlier)].questions
        n == Len(before)
        now == db.questions
        added == Len(now) - n
    IN  /\ modules = earlier[Len(earlier)].modules
        /\ calls # <<>>
        /\ Table(1) = "questions" /\ RecordOf(1) = Supplied[1]
        /\ \A k \in DOMAIN QuestionCalls :
             k <= Len(Supplied) /\ QuestionCalls[k].call.record[1] = Supplied[k]
        /\ added >= 0
        /\ SubSeq(now, 1, n) = before
        /\ added = Cardinality({k \in DOMAIN calls : Table(k) = "questions" /\ Succeeded(k)})
        /\ \A k \in 1..added : now[n + k].record = Supplied[k]
        /\ \A j, k \in DOMAIN now : j # k => now[j].id # now[k].id
        /\ TestCalls # <<>> =>
             /\ added = Len(Supplied)
             /\ \A j \in 1..n :
                  \E k \in (n + 1)..Len(now) :
                    now[k].record = before[j].record /\ now[k].id # before[j].id

C14_Witness ==
  /\ Len(earlier) = 1
  /\ Len(earlier[1].questions) = 2
  /\ Len(Supplied) = 3
  /\ Len(db.questions) = 5
  /\ TestCalls # <<>>
  /\ db.questions[3].record = db.questions[1].record

NonEmpty(v) == v # <<>>
FourAnswers(p) == <<p.answer_a, p.answer_b, p.answer_c, p.answer_d>>

\* C15: for every ParsedQuestion convertToQuestion yields answer_choices =
\* the non-empty ones of answer_a..answer_d in A, B, C, D order;
\* question_type is "numeric" exactly when answer_choices is empty, and then
\* correct_answer is the input's correct_answer verbatim; otherwise
\* question_type is "multiple_choice" and correct_answer is "1", "2", "3",
\* "4" for letter A, B, C, D and "1" for any other or empty letter.
C15_ConvertToQuestion ==
  ppc = "converted" =>
    /\ Len(converted) = Len(questions)
    /\ \A k \in DOMAIN questions :
         LET p == questions[k]
             q == converted[k]
         IN  /\ q.answer_choices = SelectSeq(FourAnswers(p), NonEmpty)
             /\ q.question_type \in {"numeric", "multiple_choice"}
             /\ q.question_type = "numeric" <=> q.answer_choices = <<>>
             /\ q.question_type = "numeric" => q.correct_answer = p.correct_answer
             /\ q.question_type = "multiple_choice" =>
                  q.correct_answer =
                    (CASE p.correct_answer = <<"A">> -> <<"1">>
                       [] p.correct_answer = <<"B">> -> <<"2">>
                       [] p.correct_answer = <<"C">> -> <<"3">>
                       [] p.correct_answer = <<"D">> -> <<"4">>
                       [] OTHER -> <<"1">>)

C15_Witness ==
  /\ ppc = "converted"
  /\ questions[1].answer_b = <<>>
  /\ questions[1].correct_answer = <<"D">>
  /\ converted[1].answer_choices = <<<<"p">>, <<"r">>, <<"s">>>>
  /\ converted[1].question_type = "multiple_choice"
  /\ converted[1].correct_answer = <<"4">>

\* The cells of the keys of rw that normalize to the same name as name, in
\* the row's key order; and those of a list of names, name by name.
ValuesUnder(rw, name) ==
  LET Matches(e) == NormalizeKey(e.key) = NormalizeKey(name)
      m == SelectSeq(rw, Matches)
  IN  [k \in DOMAIN m |-> m[k].value]

RECURSIVE ValuesInLookupOrder(_, _)
ValuesInLookupOrder(rw, names) ==
  IF names = <<>> THEN <<>>
  ELSE ValuesUnder(rw, Head(names)) \o ValuesInLookupOrder(rw, Tail(names))

IdLookup == <<S_question_id, S_reference_id, S_question__id, S_reference__id>>

\* C16: for every row and lookup (primary name plus fallbacks) getValue
\* returns the first non-empty value among the row's keys that equal the
\* primary or a fallback name after normalization, and the empty string only
\* if no key matches or every matching key holds an empty value, also when
\* two differently spelled headers normalize to the same name. Stated for
\* the question-identifier lookup of every row the loop has visited.
C16_GetValueFirstNonEmpty ==
  \A k \in DOMAIN resolvedIds :
    LET found == SelectSeq(ValuesInLookupOrder(RowOf(sheet, k), IdLookup), NonEmpty)
    IN  resolvedIds[k] = (IF found = <<>> THEN <<>> ELSE found[1])

\* The header spellings above that name the question identifier.
IdSpellings ==
  {S_question_id, S_Question__ID, S_QUESTION_ID, S_reference_id, S_Reference__ID}
HasIdHeader == \E c \in DOMAIN sheet.headers : sheet.headers[c] \in IdSpellings
NothingParsed ==
  /\ rowIndex = 0
  /\ resolvedIds = <<>>
  /\ questions = <<>>
  /\ skippedRows = 0
  /\ converted = <<>>

\* C17: parseExcelFile rejects a file that has no data rows, and rejects a
\* file whose header set contains no key normalizing to "questionid" or
\* "referenceid", before any row is parsed and without producing any
\* question: such a file never reaches the row loop.
C17_RejectedBeforeAnyRow ==
  /\ Len(sheet.rows) = 0 =>
       /\ ppc \in {"onload", "rejected"}
       /\ NothingParsed
       /\ ppc = "rejected" =>
            rejection = "The Excel file is empty or has no data rows"
  /\ (ppc # "none" /\ ~HasIdHeader) =>
       /\ ppc \in {"onload", "rejected"}
       /\ NothingParsed
       /\ (ppc = "rejected" /\ Len(sheet.rows) > 0) =>
            rejection = "Missing required column 'question_id' or 'reference_id'"

C17_Witness ==
  /\ ppc = "rejected"
  /\ rejection = "Missing required column 'question_id' or 'reference_id'"
  /\ Len(sheet.rows) = 2
  /\ sheet.rows[1][1] = <<"Q">>
  /\ NothingParsed

NotBlank(v) == ~IsBlank(v)
ValidIds == SelectSeq(resolvedIds, NotBlank)

\* C18: in parseExcelFile every row whose resolved question identifier is
\* empty or whitespace-only is skipped and adds exactly 1 to the skip count,
\* every other row yields exactly one ParsedQuestion in input row order, and
\* the file is rejected if and only if zero rows are valid.
C18_SkipCountAndOrder ==
  /\ Len(resolvedIds) = rowIndex
  /\ rowIndex <= Len(sheet.rows)
  /\ skippedRows = Cardinality({k \in DOMAIN resolvedIds : IsBlank(resolvedIds[k])})
  /\ Len(questions) = Len(ValidIds)
  /\ skippedRows + Len(questions) = rowIndex
  /\ \A k \in DOMAIN questions :
       /\ questions[k].reference_id = Trim(ValidIds[k])
       /\ questions[k].reference_id # <<>>
  /\ ppc \in {"resolved", "converted"} =>
       /\ rowIndex = Len(sheet.rows)
       /\ ValidIds # <<>>
  /\ ppc = "rejected" =>
       /\ ValidIds = <<>>
       /\ questions = <<>>
       /\ rowIndex = Len(sheet.rows) \/ ~HasIdHeader

C18_Witness ==
  /\ ppc = "resolved"
  /\ Len(sheet.rows) = 2
  /\ resolvedIds = <<<<" ">>, <<"R", " ">>>>
  /\ skippedRows = 1
  /\ Len(questions) = 1
  /\ questions[1].reference_id = <<"R">>

S_very__intense == <<"v", "e", "r", "y", " ", "i", "n", "t", "e", "n", "s", "e">>
S_very__intense__level ==
  <<"v", "e", "r", "y", " ", "i", "n", "t", "e", "n", "s", "e", " ", "l", "e", "v", "e", "l">>

\* The row the loop has just turned into a question, and its cell under
\* the difficulty column.
JustParsed ==
  /\ ppc = "rows"
  /\ rowIndex >= 1
  /\ ~IsBlank(resolvedIds[rowIndex])
  /\ \E c \in DOMAIN sheet.headers : sheet.headers[c] \in {S_difficulty, S_Difficulty}
DifficultyCell ==
  sheet.rows[rowIndex][CHOOSE c \in DOMAIN sheet.headers :
                         sheet.headers[c] \in {S_difficulty, S_Difficulty}]
LastQuestion == questions[Len(questions)]

\* C19 as stated: difficulty normalization maps input "Hard" to "intense" and
\* input "Very Hard Level" to "very intense".
C19_VeryHardLevelIsVeryIntense ==
  JustParsed =>
    /\ DifficultyCell = S_Hard => LastQuestion.difficulty = S_intense
    /\ DifficultyCell = S_Very__Hard__Level => LastQuestion.difficulty = S_very__intense

\* C19 as amended: the input is lower-cased and trimmed and its first "hard"
\* is replaced by "intense", the rest of the text staying: "Hard" becomes
\* "intense" and "Very Hard Level" becomes "very intense level".
C19_HardReplacedInPlace ==
  JustParsed =>
    /\ DifficultyCell = S_Hard => LastQuestion.difficulty = S_intense
    /\ DifficultyCell = S_Very__Hard__Level =>
         LastQuestion.difficulty = S_very__intense__level

C19_Witness ==
  /\ JustParsed
  /\ DifficultyCell = S_Very__Hard__Level
  /\ LastQuestion.difficulty = S_very__intense__level

\* C20: after any sequence of file selections (each of one or more files),
\* removals and reorders the file list holds at most 4 modules and every
\* moduleNumber passed to uploadBulkData lies in 1..4, so every
\* test_section_id is one of TESTSECTION1..TESTSECTION4.
C20_AtMostFourModules ==
  /\ Len(files) <= 4
  /\ \A m \in DOMAIN modules :
       /\ modules[m].moduleNumber \in 1..4
       /\ TestSectionId(modules[m].moduleNumber) \in {<<"TESTSECTION", n>> : n \in 1..4}

\* C21: after any sequence of file additions, drag reorders and removals the
\* file at list position k (counted from 1) has moduleNumber k, so module
\* numbers are distinct, contiguous from 1 and ascending in list order; the
\* modules handleUpload hands to uploadBulkData are therefore walked in
\* ascending module-number order.
C21_ModuleNumberIsPosition ==
  /\ \A k \in DOMAIN files : files[k].moduleNumber = k
  /\ caller = "page" => \A m \in DOMAIN modules : modules[m].moduleNumber = m

\* The list after additions and two edits (reorders or removals) that left a
\* file of a later selection in front of a file of an earlier one.
C21_Witness ==
  /\ edits = MaxEdits
  /\ selection = <<>>
  /\ Len(files) >= 2
  /\ files[1].id[1] > files[2].id[1]
  /\ files[1].moduleNumber = 1
  /\ files[2].moduleNumber = 2

\* The answer field of a ParsedQuestion that a letter names, and the number a
\* correct_answer string spells.
AnswerNamedBy(p, letter) ==
  CASE letter = <<"A">> -> p.answer_a
    [] letter = <<"B">> -> p.answer_b
    [] letter = <<"C">> -> p.answer_c
    [] letter = <<"D">> -> p.answer_d

IndexSpelled(text) ==
  CASE text = <<"1">> -> 1
    [] text = <<"2">> -> 2
    [] text = <<"3">> -> 3
    [] text = <<"4">> -> 4
    [] OTHER -> 0

RecognizedLetters == {<<"A">>, <<"B">>, <<"C">>, <<"D">>}

\* C22: for every multiple_choice question convertToQuestion produces from a
\* recognized letter (A..D) whose answer field is non-empty, correct_answer
\* spells a valid 1-based index into answer_choices and the choice at that
\* index is the text of the answer field the letter names, also when an
\* earlier answer field was empty and dropped.
C22_CorrectAnswerNamesTheChoice ==
  ppc = "converted" =>
    \A k \in DOMAIN questions :
      LET p == questions[k]
          q == converted[k]
      IN  (/\ q.question_type = "multiple_choice"
           /\ p.correct_answer \in RecognizedLetters
           /\ AnswerNamedBy(p, p.correct_answer) # <<>>)
          => /\ IndexSpelled(q.correct_answer) \in DOMAIN q.answer_choices
             /\ q.answer_choices[IndexSpelled(q.correct_answer)] =
                  AnswerNamedBy(p, p.correct_answer)

\* C23: in every run of uploadBulkData that returns, whatever non-error
\* responses the store gave, the number of test_questions rows inserted
\* equals the number of questions rows inserted and equals the returned
\* total_questions, the sum of the modules' question counts.
C23_LinkedCountIsQuestionCount ==
  pc = "returned" =>
    /\ result[1].total_questions = SumSeq([m \in DOMAIN modules |-> Len(modules[m].questions)])
    /\ Len(db.questions) = result[1].total_questions
    /\ Len(db.test_questions) = Len(db.questions)

\* The ids of a file list, in list order.
IdsOf(fs) == [k \in DOMAIN fs |-> fs[k].id]

\* The step in which handleFileUpload stores the parsed files.
ParseCompletes == selection # <<>> /\ selection' = <<>> /\ files' # files

\* C24: a removal or reorder made while handleFileUpload is still parsing is
\* preserved when the parse completes: the list then is the list as the
\* removals and drags left it (a removed file does not reappear, the dragged
\* order is kept) with the new files appended after it.
C24_EditsSurviveTheParse ==
  [][ParseCompletes =>
       /\ Len(files') = Len(files) + selection[1].count
       /\ IdsOf(SubSeq(files', 1, Len(files))) = IdsOf(files)]_vars

\* C25: once handleUpload has finished, isUploading is false and
\* uploadProgress is null; if uploadBulkData failed, the file list, the test
\* title and the description are the ones the upload was started with and
\* error is the failure's message; if it succeeded, the three are cleared and
\* success is the returned result.
C25_HandleUploadFinished ==
  pc = "settled" =>
    /\ isUploading = FALSE
    /\ uploadProgress = <<>>
    /\ thrown # <<>> =>
         /\ files # <<>>
         /\ ModulesOf(files) = modules
         /\ testTitle = title
         /\ testDescription = description
         /\ error = <<thrown[1].message>>
         /\ success = <<>>
    /\ thrown = <<>> =>
         /\ files = <<>>
         /\ testTitle = <<>>
         /\ testDescription = ""
         /\ success = result
         /\ success # <<>>
         /\ error = <<>>

\* handleUpload finished after a run that persisted questions and then failed
\* while linking.
C25_Witness ==
  /\ pc = "settled"
  /\ thrown # <<>>
  /\ Len(files) = 2
  /\ testTitle = <<"T">>
  /\ db.test_questions # <<>>
  /\ error = <<thrown[1].message>>
  /\ isUploading = FALSE
  /\ uploadProgress = <<>>

====
